---- MODULE Spec2Model ----
(***************************************************************************)
(* Event distribution and audit pipeline of Corporate-Os.                  *)
(*                                                                         *)
(*   - the in-process EventBus      (src/bus_event/events/event_bus.py)    *)
(*   - the RabbitMQ EventConsumer   (src/events/consumer.py) and the wire  *)
(*     messages of the publishers   (src/events/publisher.py)              *)
(*   - the audit_events table and its writers                              *)
(*     (src/app/database/models.py, src/core/events/handlers.py,           *)
(*      src/audit/service/audit_service.py)                                *)
(*                                                                         *)
(* The three parts share one state; each has its own next-state relation   *)
(* (SpecBus, SpecBroker, SpecStore) that leaves the other parts unchanged. *)
(***************************************************************************)
EXTENDS Integers, Sequences, FiniteSets, TLC

\* ------------------------------------------------------------------ bounds
\* events published on the in-process bus
MaxEvents == 2
\* subscribe() calls made over the life of the bus
MaxSubs == 2
\* messages that reach the broker's queues
MaxMsgs == 2
\* worker loops spawned by start() over the life of the bus
MaxWorkers == 2
\* distinct Event.id / event_id values offered to the audit table
MaxEventIds == 2
\* primary keys the table hands out
MaxRowId == 3
\* latest timestamp a write to the table takes
MaxClock == 3
\* largest batch_size passed to process_events_batch
MaxBatchSize == 2
\* largest number of days passed to the cleanup operations
MaxDays == 2

\* ------------------------------------------------------- in-process bus
\* EventType members used by the bus model (models.py:12-22); AUDIT_LOG is the
\* kind handlers.py registers a synchronous and an asynchronous handler for.
BusKinds == {"audit.log", "share.issued"}
\* handler callables
Handlers == {"h1", "h2"}
\* what one invocation of a handler does: returns a truthy value, returns
\* False, or raises an Exception
Outcomes == {"ok", "false", "raise"}

VARIABLES
    handlers,        \* EventBus._handlers: kind -> list of callables
    async_handlers,  \* EventBus._async_handlers
    event_queue,     \* EventBus._event_queue (asyncio.Queue)
    put_tasks,       \* tasks created by asyncio.create_task(queue.put(event)), not yet run
    running,         \* EventBus._running
    workers,         \* the _worker_loop coroutines spawned so far
    pub,             \* the frame of the publish() call in progress
    subs_made,       \* subscribe() calls made so far
    next_event       \* next Event.id (uuid4 in the source)

VARIABLES
    queues,          \* broker: queue name -> ready messages (ids), oldest first
    msgs,            \* broker: message id -> body, NoBody once the message is gone
    mstate,          \* broker: message id -> "none", "ready", "unacked", "acked", "dropped"
    nacked,          \* message id -> the consumer has nacked it with requeue
    consumer,        \* EventConsumer: running flag, consumed queue, position
    cb,              \* what the last run of EventConsumer.callback did
    next_msg         \* next message id

VARIABLES
    store,           \* rows of the audit_events table
    next_id,         \* next value of the autoincrement primary key
    last_op          \* what the last write to the table did

busVars == <<handlers, async_handlers, event_queue, put_tasks, running, workers, pub, subs_made, next_event>>

brokerVars == <<queues, msgs, mstate, nacked, consumer, cb, next_msg>>

VARIABLES
    publishers,      \* the publisher singletons: connection and channel of each
    broker_up,       \* the RabbitMQ server accepts connections
    last_send        \* what the last _publish_message call did

storeVars == <<store, next_id, last_op>>

publisherVars == <<publishers, broker_up, last_send>>

VARIABLES
    call             \* the last call of a function wrapped by publish_event or publish_event_async

decoratorVars == <<call>>

vars == <<busVars, brokerVars, storeVars, publisherVars, decoratorVars>>

NoEvent == [id |-> 0, kind |-> "none"]

\* mutated: the list being walked was changed during the walk; async_seen: an
\* asynchronous handler has ended for this event before publish() returned;
\* touched: the handlers subscribed to or removed from the walked list during
\* the walk; async_registered: what line 81 read
IdlePub == [pc |-> "idle", ev |-> NoEvent, idx |-> 0, log |-> <<>>,
            mutated |-> FALSE, raised |-> FALSE, result |-> "none",
            async_seen |-> FALSE, touched |-> {},
            async_registered |-> FALSE]

\* mode: "task" (a task of the caller's loop, start line 155) or "thread" (a
\* loop of its own in a daemon thread, lines 158-164); tasks: one entry per task
\* _handle_async created, "pending" until it ends; aborted: the worker was
\* cancelled while handlers of its event had not returned; late: it dequeued an
\* event while _running was False
IdleWorker == [pc |-> "absent", mode |-> "none", ev |-> NoEvent, hs |-> <<>>,
               tasks |-> <<>>, aborted |-> FALSE, late |-> FALSE]

Alive(w) == workers[w].pc \in {"waiting", "handling"}

\* publish() has returned and its caller has not yet taken the result: nothing
\* else is scheduled between the return statement and the caller's next step
Returning == pub.pc = "returned"

InitBus ==
    /\ handlers = [k \in BusKinds |-> <<>>]
    /\ async_handlers = [k \in BusKinds |-> <<>>]
    /\ event_queue = <<>>
    /\ put_tasks = <<>>
    /\ running = FALSE
    /\ workers = [w \in 1..MaxWorkers |-> IdleWorker]
    /\ pub = IdlePub
    /\ next_event = 1 /\ subs_made = 0

\* list.remove(x): drops the first occurrence
RemoveFirst(s, x) ==
    LET i == CHOOSE j \in 1..Len(s) : s[j] = x /\ \A m \in 1..(j - 1) : s[m] # x
    IN  SubSeq(s, 1, i - 1) \o SubSeq(s, i + 1, Len(s))

InSeq(s, x) == \E i \in 1..Len(s) : s[i] = x

\* a registry change while publish() iterates over the same list
MutatesDispatch(kind, is_async) ==
    pub.pc = "sync" /\ pub.ev.kind = kind /\ ~is_async

subscribe(kind, h, is_async) ==
    /\ ~Returning
    /\ subs_made < MaxSubs /\ subs_made' = subs_made + 1
    /\ IF is_async
       THEN /\ async_handlers' = [async_handlers EXCEPT ![kind] = Append(@, h)]
            /\ UNCHANGED handlers
       ELSE /\ handlers' = [handlers EXCEPT ![kind] = Append(@, h)]
            /\ UNCHANGED async_handlers
    /\ pub' = IF MutatesDispatch(kind, is_async)
              THEN [pub EXCEPT !.mutated = TRUE, !.touched = @ \cup {h}] ELSE pub
    /\ UNCHANGED <<event_queue, put_tasks, running, workers, next_event>>

unsubscribe(kind, h, is_async) ==
    /\ ~Returning
    /\ IF is_async
       THEN /\ async_handlers' = IF InSeq(async_handlers[kind], h)
                                 THEN [async_handlers EXCEPT ![kind] = RemoveFirst(@, h)]
                                 ELSE async_handlers
            /\ UNCHANGED handlers
       ELSE /\ handlers' = IF InSeq(handlers[kind], h)
                           THEN [handlers EXCEPT ![kind] = RemoveFirst(@, h)]
                           ELSE handlers
            /\ UNCHANGED async_handlers
    /\ pub' = IF MutatesDispatch(kind, is_async) /\ InSeq(handlers[kind], h)
              THEN [pub EXCEPT !.mutated = TRUE, !.touched = @ \cup {h}] ELSE pub
    /\ UNCHANGED <<event_queue, put_tasks, running, workers, next_event, subs_made>>

\* _handle_sync, line 93: the list publish() walks. Mutant: walks both registries.
SyncHandlersFor_BothRegistries(kind) ==
    [i \in 1..(Len(handlers[kind]) + Len(async_handlers[kind])) |->
        IF i <= Len(handlers[kind])
        THEN [h |-> handlers[kind][i], reg |-> "sync"]
        ELSE [h |-> async_handlers[kind][i - Len(handlers[kind])], reg |-> "async"]]

SyncHandlersFor(kind) ==
    [i \in 1..Len(handlers[kind]) |-> [h |-> handlers[kind][i], reg |-> "sync"]]

\* _handle_sync, lines 96-101: the loop goes on whatever the handler did (an
\* Exception is caught and logged, False is logged). Mutant: no try/except.
SyncContinue_NoCatch(out) == out # "raise"

SyncContinue(out) == TRUE

\* publish, line 82: asyncio.create_task raises RuntimeError without a running loop
CreateTaskRaises(in_loop) == ~in_loop

\* publish, lines 85-89: True unless an exception reached the except clause.
\* Mutant: the result also reports the handlers' outcomes.
PublishResult_HandlerOutcome(raised, log) ==
    ~raised /\ \A i \in 1..Len(log) : log[i].out = "ok"

PublishResult(raised, log) == ~raised

PublishBegin(kind) ==
    /\ pub.pc = "idle"
    /\ next_event <= MaxEvents
    /\ pub' = [IdlePub EXCEPT !.pc = "sync",
                              !.ev = [id |-> next_event, kind |-> kind],
                              !.idx = 1]
    /\ next_event' = next_event + 1
    /\ UNCHANGED <<handlers, async_handlers, event_queue, put_tasks, running, workers, subs_made>>

\* one iteration of the for loop of _handle_sync
PublishSyncStep(out) ==
    /\ pub.pc = "sync"
    /\ pub.idx <= Len(SyncHandlersFor(pub.ev.kind))
    /\ LET entry == SyncHandlersFor(pub.ev.kind)[pub.idx]
           log2 == Append(pub.log, [h |-> entry.h, reg |-> entry.reg, out |-> out])
       IN  pub' = IF SyncContinue(out)
                  THEN [pub EXCEPT !.idx = @ + 1, !.log = log2]
                  ELSE [pub EXCEPT !.pc = "returned", !.log = log2, !.raised = TRUE,
                                   !.result = PublishResult(TRUE, log2)]
    /\ UNCHANGED <<handlers, async_handlers, event_queue, put_tasks, running, workers, next_event, subs_made>>

\* the rest of publish once the loop is over: lines 80-89. in_loop: whether the
\* calling thread has a running asyncio event loop
PublishFinish(in_loop) ==
    /\ pub.pc = "sync"
    /\ pub.idx > Len(SyncHandlersFor(pub.ev.kind))
    /\ LET needs_put == async_handlers[pub.ev.kind] # <<>>
           raised == needs_put /\ CreateTaskRaises(in_loop)
       IN  /\ put_tasks' = IF needs_put /\ ~raised THEN Append(put_tasks, pub.ev)
                           ELSE put_tasks
           /\ pub' = [pub EXCEPT !.pc = "returned", !.raised = raised,
                                 !.async_registered = needs_put,
                                 !.result = PublishResult(raised, pub.log)]
    /\ UNCHANGED <<handlers, async_handlers, event_queue, running, workers,
                   next_event, subs_made>>

\* the caller of publish() takes the result
PublishReturn ==
    /\ Returning
    /\ pub' = IdlePub
    /\ UNCHANGED <<handlers, async_handlers, event_queue, put_tasks, running, workers, next_event, subs_made>>

\* the slot of the next worker start() spawns
FreeSlot == CHOOSE w \in 1..MaxWorkers :
                workers[w].pc = "absent" /\ \A v \in 1..(w - 1) : workers[v].pc # "absent"

\* start, lines 149-165: nothing when _running; else a task of the running loop,
\* or, when get_event_loop raises RuntimeError, a thread with a loop of its own.
StartSpawns(is_running) == ~is_running

start(has_loop) ==
    /\ ~Returning
    /\ IF StartSpawns(running)
       THEN /\ \E w \in 1..MaxWorkers : workers[w].pc = "absent"
            /\ running' = TRUE
            /\ workers' = [workers EXCEPT ![FreeSlot] =
                              [IdleWorker EXCEPT !.pc = "waiting",
                                                 !.mode = IF has_loop THEN "task" ELSE "thread"]]
       ELSE UNCHANGED <<running, workers>>
    /\ UNCHANGED <<handlers, async_handlers, event_queue, put_tasks, pub,
                   next_event, subs_made>>

\* Task.cancel() on the worker: CancelledError is raised at its await, gather
\* cancels the handler tasks that have not ended, and the loop is left
Cancelled(r) ==
    [IdleWorker EXCEPT !.pc = "cancelled", !.late = r.late,
                       !.aborted = (r.pc = "handling" /\ \E i \in 1..Len(r.tasks) :
                                                            r.tasks[i] = "pending")]

\* stop, lines 167-172: the flag, and cancel() on _worker_task (set by the "task"
\* branch of start only)
stop ==
    /\ ~Returning
    /\ running' = FALSE
    /\ workers' = [w \in 1..MaxWorkers |->
                      IF Alive(w) /\ workers[w].mode = "task"
                      THEN Cancelled(workers[w]) ELSE workers[w]]
    /\ UNCHANGED <<handlers, async_handlers, event_queue, put_tasks, pub,
                   next_event, subs_made>>

\* asyncio.Queue.put on the queue of line 23. Mutant: newest first.
QueuePut_Front(q, e) == <<e>> \o q

QueuePut(q, e) == Append(q, e)

\* asyncio.Queue() (line 23): maxsize 0, put never waits for room
QueueFull(q) == FALSE

\* the event loop runs the oldest pending queue.put task
LoopRunPut ==
    /\ ~Returning
    /\ put_tasks # <<>>
    /\ ~QueueFull(event_queue)
    /\ event_queue' = QueuePut(event_queue, Head(put_tasks))
    /\ put_tasks' = Tail(put_tasks)
    /\ UNCHANGED <<handlers, async_handlers, running, workers, pub,
                   next_event, subs_made>>

\* _worker_loop line 137 and _handle_async lines 106-120: one task per handler.
\* The worker is inside wait_for: _running is read at the top of the loop only.
WorkerTake(w) ==
    /\ ~Returning
    /\ workers[w].pc = "waiting"
    /\ event_queue # <<>>
    /\ LET ev == Head(event_queue)
       IN  workers' = [workers EXCEPT ![w] =
                  [@ EXCEPT !.pc = "handling", !.ev = ev,
                            !.hs = async_handlers[ev.kind],
                            !.tasks = [i \in 1..Len(async_handlers[ev.kind]) |-> "pending"],
                            !.late = @ \/ ~running]]
    /\ event_queue' = Tail(event_queue)
    /\ UNCHANGED <<handlers, async_handlers, put_tasks, running, pub, next_event, subs_made>>

\* gather(*tasks, return_exceptions=True), line 124: a task that ends, whatever
\* way, leaves the others alone. Mutant: the first exception cancels the rest.
Gathered_CancelOnRaise(tasks, i, out) ==
    [j \in 1..Len(tasks) |->
        IF j = i THEN out
        ELSE IF out = "raise" /\ tasks[j] = "pending" THEN "cancelled"
        ELSE tasks[j]]

Gathered(tasks, i, out) == [tasks EXCEPT ![i] = out]

\* one of the concurrent handler tasks ends
AsyncHandlerReturn(w, i, out) ==
    /\ ~Returning
    /\ workers[w].pc = "handling"
    /\ i \in 1..Len(workers[w].tasks)
    /\ workers[w].tasks[i] = "pending"
    /\ workers' = [workers EXCEPT ![w].tasks = Gathered(@, i, out)]
    /\ pub' = IF pub.pc = "sync" /\ pub.ev.id = workers[w].ev.id
              THEN [pub EXCEPT !.async_seen = TRUE] ELSE pub
    /\ UNCHANGED <<handlers, async_handlers, event_queue, put_tasks, running,
                   next_event, subs_made>>

\* the worker at "while self._running" (line 133)
LoopTop(r, is_running) ==
    IF is_running
    THEN [IdleWorker EXCEPT !.pc = "waiting", !.mode = r.mode, !.late = r.late]
    ELSE [IdleWorker EXCEPT !.pc = "exited", !.late = r.late]

\* _worker_loop line 139: task_done, next iteration
WorkerDone(w) ==
    /\ ~Returning
    /\ workers[w].pc = "handling"
    /\ \A i \in 1..Len(workers[w].tasks) : workers[w].tasks[i] # "pending"
    /\ workers' = [workers EXCEPT ![w] = LoopTop(@, running)]
    /\ UNCHANGED <<handlers, async_handlers, event_queue, put_tasks, running,
                   pub, next_event, subs_made>>

\* _worker_loop lines 140-141: wait_for times out on an empty queue and the loop
\* reads _running again (a step only when the worker leaves)
WorkerTimeout(w) ==
    /\ ~Returning
    /\ workers[w].pc = "waiting"
    /\ event_queue = <<>>
    /\ ~running
    /\ workers' = [workers EXCEPT ![w] = LoopTop(@, running)]
    /\ UNCHANGED <<handlers, async_handlers, event_queue, put_tasks, running,
                   pub, next_event, subs_made>>

Subscribe ==
    /\ \E k \in BusKinds, h \in Handlers, a \in BOOLEAN : subscribe(k, h, a)
    /\ UNCHANGED <<brokerVars, storeVars, publisherVars, decoratorVars>>
Unsubscribe ==
    /\ \E k \in BusKinds, h \in Handlers, a \in BOOLEAN : unsubscribe(k, h, a)
    /\ UNCHANGED <<brokerVars, storeVars, publisherVars, decoratorVars>>
Publish ==
    /\ \E k \in BusKinds : PublishBegin(k)
    /\ UNCHANGED <<brokerVars, storeVars, publisherVars, decoratorVars>>
SyncStep ==
    /\ \E o \in Outcomes : PublishSyncStep(o)
    /\ UNCHANGED <<brokerVars, storeVars, publisherVars, decoratorVars>>
Finish ==
    /\ \E l \in BOOLEAN : PublishFinish(l)
    /\ UNCHANGED <<brokerVars, storeVars, publisherVars, decoratorVars>>
Return ==
    /\ PublishReturn
    /\ UNCHANGED <<brokerVars, storeVars, publisherVars, decoratorVars>>
Start ==
    /\ \E l \in BOOLEAN : start(l)
    /\ UNCHANGED <<brokerVars, storeVars, publisherVars, decoratorVars>>
RunPut ==
    /\ LoopRunPut
    /\ UNCHANGED <<brokerVars, storeVars, publisherVars, decoratorVars>>
Stop ==
    /\ stop
    /\ UNCHANGED <<brokerVars, storeVars, publisherVars, decoratorVars>>
Take ==
    /\ \E w \in 1..MaxWorkers : WorkerTake(w)
    /\ UNCHANGED <<brokerVars, storeVars, publisherVars, decoratorVars>>
AsyncReturn ==
    /\ \E w \in 1..MaxWorkers, i \in 1..MaxSubs, o \in Outcomes : AsyncHandlerReturn(w, i, o)
    /\ UNCHANGED <<brokerVars, storeVars, publisherVars, decoratorVars>>
Done ==
    /\ \E w \in 1..MaxWorkers : WorkerDone(w)
    /\ UNCHANGED <<brokerVars, storeVars, publisherVars, decoratorVars>>
Timeout ==
    /\ \E w \in 1..MaxWorkers : WorkerTimeout(w)
    /\ UNCHANGED <<brokerVars, storeVars, publisherVars, decoratorVars>>

NextBus ==
    \/ Subscribe
    \/ Unsubscribe
    \/ Publish
    \/ SyncStep
    \/ Finish
    \/ Return
    \/ Start
    \/ RunPut
    \/ Take
    \/ AsyncReturn
    \/ Done

\* the bus with its whole life cycle: stop() and restarts
NextLifecycle ==
    \/ NextBus
    \/ Stop
    \/ Timeout

\* ------------------------------------------------- publishing decorators
\* the wrappers decorators.py builds: wrapper (publish_event, line 78),
\* async_wrapper and sync_wrapper (publish_event_async, lines 119 and 136)
Wrappers == {"wrapper", "async_wrapper", "sync_wrapper"}

\* what the wrapped function gives back: a dict, or any other value
Values == {"dict", "scalar"}

\* handlers_then, async_then: the registries of the event's kind when the
\* wrapper ran; invoked: the synchronous handlers called; queued: a task putting
\* the event on the queue was created; swallowed: an exception reached the
\* wrapper's except clause
NoCall == [pc |-> "idle", wrapper |-> "none", kind |-> "none", func |-> "none",
           value |-> "none", outcome |-> "none", returned |-> "none",
           ev |-> NoEvent, payload |-> "none", handlers_then |-> <<>>,
           async_then |-> FALSE, invoked |-> <<>>, handler_out |-> "none",
           queued |-> FALSE, has_loop |-> FALSE, build_failed |-> FALSE]

WrapperReturning == call.pc = "returned"

InitDecorators == call = NoCall

\* lines 84, 125, 143: result if isinstance(result, dict) else {"result": result}
Payload(value) == IF value = "dict" THEN "dict" ELSE "wrapped"

\* lines 92, 133, 156: return result. Mutant: the event's payload is returned.
WrapperResult_Payload(value) == Payload(value)

WrapperResult(value) == value

\* lines 87, 128 call event_bus.publish; sync_wrapper (lines 146-150) calls it
\* only when asyncio.get_event_loop() raised RuntimeError
UsesPublish(w, has_loop) == w # "sync_wrapper" \/ ~has_loop

\* One call of a decorated function. func: the wrapped function returns or
\* raises; build_fails: Event(...) raises; has_loop: the calling thread has an
\* event loop (a coroutine always has); out: what the synchronous handlers do.
wrapper(w, kind, func, value, build_fails, has_loop, out) ==
    /\ ~WrapperReturning
    /\ pub.pc = "idle"
    /\ next_event <= MaxEvents
    /\ w = "async_wrapper" => has_loop
    /\ LET emits == func = "returns" /\ ~build_fails
           ev == [id |-> next_event, kind |-> kind]
           publishes == emits /\ UsesPublish(w, has_loop)
           sync == SyncHandlersFor(kind)
           invoked == IF publishes THEN [i \in 1..Len(sync) |-> sync[i].h] ELSE <<>>
           needs_put == async_handlers[kind] # <<>>
           queued == /\ emits
                     /\ IF publishes THEN needs_put /\ ~CreateTaskRaises(has_loop)
                                     ELSE TRUE
       IN  /\ call' = [NoCall EXCEPT
                          !.pc = "returned", !.wrapper = w, !.kind = kind,
                          !.func = func, !.value = value,
                          !.outcome = IF func = "raises" THEN "raised" ELSE "returned",
                          !.returned = IF func = "raises" THEN "none" ELSE WrapperResult(value),
                          !.ev = IF emits THEN ev ELSE NoEvent,
                          !.payload = IF emits THEN Payload(value) ELSE "none",
                          !.handlers_then = handlers[kind],
                          !.async_then = needs_put,
                          !.invoked = invoked,
                          !.handler_out = IF invoked # <<>> THEN out ELSE "none",
                          !.queued = queued, !.has_loop = has_loop,
                          !.build_failed = func = "returns" /\ build_fails]
           /\ next_event' = IF emits THEN next_event + 1 ELSE next_event
           /\ put_tasks' = IF queued THEN Append(put_tasks, ev) ELSE put_tasks
    /\ UNCHANGED <<handlers, async_handlers, event_queue, running, workers, pub, subs_made>>

\* the caller of the decorated function takes the result
WrapperReturn ==
    /\ WrapperReturning
    /\ call' = NoCall
    /\ UNCHANGED busVars

CallDecorated ==
    /\ \E w \in Wrappers, k \in BusKinds, f \in {"returns", "raises"}, v \in Values,
          b \in BOOLEAN, l \in BOOLEAN, o \in {"ok", "raise"} :
            wrapper(w, k, f, v, b, l, o)
    /\ UNCHANGED <<brokerVars, storeVars, publisherVars>>
ReturnFromWrapper ==
    /\ WrapperReturn
    /\ UNCHANGED <<brokerVars, storeVars, publisherVars>>

NextDecorators ==
    \/ Subscribe
    \/ CallDecorated
    \/ ReturnFromWrapper
    \/ RunPut

\* ------------------------------------------------- broker and consumer
\* EventTypeEnum (src/bus_event/event_type.py:6-14)
AuditKinds == {"user_login", "user_logout", "shareholder_created", "shareholder_updated",
               "share_issued", "certificate_generated", "permission_changed",
               "data_export", "system_error"}
NotificationTypes == {"share_issuance", "certificate_generated", "system_alert"}
SystemEvents == {"application_startup", "database_backup"}
\* queues declared by connect() (consumer.py:355-357)
QueueNames == {"events", "audit_events", "notifications"}

\* The keys of a payload the consumer reads; "absent" = the key is missing.
\* is_dict = FALSE: the JSON value of "payload" is not an object (null, a string).
EmptyPayload == [is_dict |-> TRUE, event_type |-> "absent", notification_type |-> "absent",
                 event |-> "absent", shareholder_data |-> "absent"]

\* a body that json.loads(body.decode('utf-8')) cannot decode
Undecodable(enc) == [enc |-> enc, event_type |-> "absent", payload |-> EmptyPayload]

\* publisher.py:141-283: the message of AuditEventPublisher.publish_<kind>; the
\* payload carries the method's arguments and no "event_type" key
AuditMessage(kind) ==
    [enc |-> "json", event_type |-> kind,
     payload |-> [EmptyPayload EXCEPT !.shareholder_data =
                     IF kind = "shareholder_created" THEN "dict" ELSE "absent"]]

\* publisher.py:340-395
NotificationMessage(nt) ==
    [enc |-> "json", event_type |-> "notification",
     payload |-> [EmptyPayload EXCEPT !.notification_type = nt]]

\* publisher.py:424-450
SystemMessage(e) ==
    [enc |-> "json", event_type |-> "system", payload |-> [EmptyPayload EXCEPT !.event = e]]

\* the kinds whose messages are put on the queues of the model (the login of
\* the tests, the kind with a nested dict, the kind of the spec's scenario)
SampleKinds == {"user_login", "shareholder_created", "share_issued"}

PublisherAuditMessages == {AuditMessage(k) : k \in SampleKinds}

PublisherMessages ==
    PublisherAuditMessages
        \cup {NotificationMessage(nt) : nt \in NotificationTypes}
        \cup {SystemMessage(e) : e \in SystemEvents}

\* Bodies of other producers on the same queues: the shape the consumer's
\* handlers read (payload.event_type set), unknown types and sub-types, a
\* missing event_type, a payload that is no object, undecodable bodies.
ForeignMessages ==
    {[enc |-> "json", event_type |-> k, payload |-> [EmptyPayload EXCEPT !.event_type = k]] :
        k \in {"user_login", "share_issued"}}
    \cup {[enc |-> "json", event_type |-> "shareholder_created",
           payload |-> [EmptyPayload EXCEPT !.event_type = "shareholder_created",
                                            !.shareholder_data = "nondict"]],
          [enc |-> "json", event_type |-> "user_login",
           payload |-> [EmptyPayload EXCEPT !.is_dict = FALSE]],
          NotificationMessage("unknown_notification"),
          SystemMessage("unknown_event"),
          [enc |-> "json", event_type |-> "unknown_event", payload |-> EmptyPayload],
          [enc |-> "json", event_type |-> "absent", payload |-> EmptyPayload],
          Undecodable("badjson"),
          Undecodable("badutf8")}

MessageSet == PublisherMessages \cup ForeignMessages

NoBody == [enc |-> "none", event_type |-> "absent", payload |-> EmptyPayload]

NoCallback == [msg |-> 0, body |-> NoBody, done |-> FALSE, decoded |-> FALSE,
               category |-> "none", op |-> "none", handler |-> "none", calls |-> <<>>]

InitBroker ==
    /\ queues = [q \in QueueNames |-> <<>>]
    /\ msgs = [m \in 1..MaxMsgs |-> NoBody]
    /\ mstate = [m \in 1..MaxMsgs |-> "none"]
    /\ nacked = [m \in 1..MaxMsgs |-> FALSE]
    /\ consumer = [pc |-> "stopped", queue |-> "none"]
    /\ cb = NoCallback
    /\ next_msg = 1

\* callback() has run and start_consuming's loop has not yet taken its next
\* step: nothing else is scheduled in between
CallbackReturning == consumer.pc = "returned"

\* callback line 371
DecodeOk(body) == body.enc = "json"

\* callback lines 380-388
Category(event_type) ==
    IF event_type \in AuditKinds THEN "audit"
    ELSE IF event_type = "notification" THEN "notification"
    ELSE IF event_type = "system" THEN "system"
    ELSE "unknown"

\* AuditEventHandler.handle lines 178-200: the concrete operation, chosen by the
\* payload's own "event_type" key
AuditOp(payload) ==
    IF payload.event_type \in AuditKinds THEN payload.event_type ELSE "none"

\* AuditEventHandler.handle_*: True; handle_shareholder_created returns False
\* when shareholder_data has no .get (lines 70-78)
AuditSubHandler(op, payload) ==
    IF op = "shareholder_created" /\ payload.shareholder_data = "nondict"
    THEN "false" ELSE "true"

\* payload.get on a value that is no dict raises AttributeError out of handle()
AuditHandle(payload) ==
    IF ~payload.is_dict THEN "raised"
    ELSE IF AuditOp(payload) = "none" THEN "false"
    ELSE AuditSubHandler(AuditOp(payload), payload)

\* NotificationEventHandler.handle lines 262-272
NotificationOp(payload) ==
    IF payload.notification_type \in NotificationTypes THEN payload.notification_type
    ELSE "none"

\* handle lines 270-272: an unrecognised notification_type is logged and
\* False is returned. Mutant: it counts as handled.
NotificationHandle_UnknownOk(payload) ==
    IF ~payload.is_dict THEN "raised" ELSE "true"

NotificationHandle(payload) ==
    IF ~payload.is_dict THEN "raised"
    ELSE IF NotificationOp(payload) = "none" THEN "false" ELSE "true"

\* SystemEventHandler.handle lines 310-318
SystemOp(payload) ==
    IF payload.event \in SystemEvents THEN payload.event ELSE "none"

SystemHandle(payload) ==
    IF ~payload.is_dict THEN "raised"
    ELSE IF SystemOp(payload) = "none" THEN "false" ELSE "true"

\* callback line 388: success for a type no handler knows. Mutant: failure.
UnknownSuccess_Requeue == "false"

UnknownSuccess == "true"

\* callback lines 390-395. Mutant: nack without requeue.
Decision_NoRequeue(success) == IF success THEN "ack" ELSE "nack_drop"

Decision(success) == IF success THEN "ack" ELSE "nack_requeue"

\* callback lines 397-399: any exception of the try block. Mutant: nack
\* without requeue.
ExceptDecision_NoRequeue == "nack_drop"

ExceptDecision == "nack_requeue"

\* one run of EventConsumer.callback on a body (lines 370-399)
CallbackRun(body) ==
    IF ~DecodeOk(body)
    THEN [decoded |-> FALSE, category |-> "none", op |-> "none", handler |-> "none",
          calls |-> <<ExceptDecision>>]
    ELSE LET cat == Category(body.event_type)
             p == body.payload
             op == IF ~p.is_dict THEN "none"
                   ELSE CASE cat = "audit" -> AuditOp(p)
                          [] cat = "notification" -> NotificationOp(p)
                          [] cat = "system" -> SystemOp(p)
                          [] OTHER -> "none"
             res == CASE cat = "audit" -> AuditHandle(p)
                      [] cat = "notification" -> NotificationHandle(p)
                      [] cat = "system" -> SystemHandle(p)
                      [] OTHER -> UnknownSuccess
         IN  [decoded |-> TRUE, category |-> cat, op |-> op,
              handler |-> IF cat = "unknown" THEN "none" ELSE res,
              calls |-> IF res = "raised" THEN <<ExceptDecision>>
                        ELSE <<Decision(res = "true")>>]

\* a producer's message reaches a durable queue. The broker never looks into a
\* body: msgs[m] is fixed when the message is first handed to a consumer.
Arrive(q) ==
    /\ ~CallbackReturning
    /\ next_msg <= MaxMsgs
    /\ queues' = [queues EXCEPT ![q] = Append(@, next_msg)]
    /\ mstate' = [mstate EXCEPT ![next_msg] = "ready"]
    /\ next_msg' = next_msg + 1
    /\ UNCHANGED <<msgs, nacked, consumer, cb>>

\* start_consuming lines 404-414: connect, basic_consume(queue, auto_ack=False)
start_consuming(q) ==
    /\ consumer.pc = "stopped"
    /\ consumer' = [pc |-> "consuming", queue |-> q]
    /\ UNCHANGED <<queues, msgs, mstate, nacked, cb, next_msg>>

Unacked == {m \in 1..MaxMsgs : mstate[m] = "unacked"}

\* the unacknowledged messages, oldest first
UnackedSeq == SelectSeq([i \in 1..MaxMsgs |-> i], LAMBDA i : mstate[i] = "unacked")

\* connect line 360: basic_qos(prefetch_count=1)
PrefetchCount == 1

\* the broker sends a consumer a message only while the consumer holds fewer
\* than prefetch_count unacknowledged ones. Mutant: no basic_qos call.
WithinPrefetch_NoQos(unacked) == TRUE

WithinPrefetch(unacked) == Cardinality(unacked) < PrefetchCount

\* start_consuming line 413: basic_consume(..., auto_ack=False). Mutant:
\* auto_ack=True, the broker forgets a message as soon as it has sent it.
AutoAck_On == TRUE

AutoAck == FALSE

\* the broker hands the oldest ready message of the consumed queue to the
\* consumer, which runs callback() on it at once when it is idle in its loop
\* and keeps it for later when a callback is running
Deliver(body) ==
    /\ consumer.pc \in {"consuming", "callback"}
    /\ WithinPrefetch(Unacked)
    /\ queues[consumer.queue] # <<>>
    /\ LET m == Head(queues[consumer.queue])
       IN  /\ msgs[m] # NoBody => body = msgs[m]
           /\ queues' = [queues EXCEPT ![consumer.queue] = Tail(@)]
           /\ mstate' = [mstate EXCEPT ![m] = IF AutoAck THEN "acked" ELSE "unacked"]
           /\ msgs' = [msgs EXCEPT ![m] = body]
           /\ cb' = IF consumer.pc = "consuming"
                    THEN [NoCallback EXCEPT !.msg = m, !.body = body]
                    ELSE cb
    /\ consumer' = [consumer EXCEPT !.pc = "callback"]
    /\ UNCHANGED <<nacked, next_msg>>

\* the callback runs and the broker applies its basic_ack / basic_nack
Callback ==
    /\ consumer.pc = "callback"
    /\ LET m == cb.msg
           r == CallbackRun(cb.body)
           last == r.calls[Len(r.calls)]
       IN  /\ cb' = [cb EXCEPT !.done = TRUE, !.decoded = r.decoded,
                               !.category = r.category, !.op = r.op,
                               !.handler = r.handler, !.calls = r.calls]
           /\ mstate' = [mstate EXCEPT ![m] =
                            CASE last = "ack" -> "acked"
                              [] last = "nack_requeue" -> "ready"
                              [] OTHER -> "dropped"]
           /\ msgs' = IF last = "nack_requeue" THEN msgs
                      ELSE [msgs EXCEPT ![m] = NoBody]
           /\ queues' = IF last = "nack_requeue"
                        THEN [queues EXCEPT ![consumer.queue] = <<m>> \o @]
                        ELSE queues
           /\ nacked' = IF last = "nack_requeue"
                             THEN [nacked EXCEPT ![m] = TRUE]
                             ELSE nacked
    /\ consumer' = [consumer EXCEPT !.pc = "returned"]
    /\ UNCHANGED next_msg

\* callback lines 390 and 396-399: what the callback calls when the basic_ack
\* of line 390 raises (the channel is failing): the except clause of the same
\* try block answers with basic_nack(requeue=True)
CallsWhenAckRaises == <<"ack", ExceptDecision>>

\* the callback runs on a failing channel: its handler succeeded, basic_ack
\* raises and nothing was acknowledged; the broker puts the message back
\* (by the nack, or when the channel closes)
CallbackAckRaises ==
    /\ consumer.pc = "callback"
    /\ LET m == cb.msg
           r == CallbackRun(cb.body)
       IN  /\ r.calls = <<"ack">>
           /\ cb' = [cb EXCEPT !.done = TRUE, !.decoded = r.decoded,
                               !.category = r.category, !.op = r.op,
                               !.handler = r.handler, !.calls = CallsWhenAckRaises]
           /\ mstate' = [mstate EXCEPT ![m] = "ready"]
           /\ queues' = [queues EXCEPT ![consumer.queue] = <<m>> \o @]
           /\ nacked' = [nacked EXCEPT ![m] = TRUE]
    /\ consumer' = [consumer EXCEPT !.pc = "returned"]
    /\ UNCHANGED <<msgs, next_msg>>

\* back in pika's consuming loop (start_consuming line 418)
CallbackReturn ==
    /\ CallbackReturning
    /\ IF Unacked = {}
       THEN /\ consumer' = [consumer EXCEPT !.pc = "consuming"]
            /\ cb' = NoCallback
       ELSE /\ consumer' = [consumer EXCEPT !.pc = "callback"]
            /\ cb' = [NoCallback EXCEPT !.msg = Head(UnackedSeq),
                                        !.body = msgs[Head(UnackedSeq)]]
    /\ UNCHANGED <<queues, msgs, mstate, nacked, next_msg>>

\* the consumer is interrupted (start_consuming lines 419-429, disconnect); the
\* broker requeues what the closed channel had not acknowledged
StopConsumer ==
    /\ consumer.pc \in {"consuming", "callback"}
    /\ queues' = IF Unacked = {} THEN queues
                 ELSE [queues EXCEPT ![consumer.queue] = UnackedSeq \o @]
    /\ cb' = NoCallback
    /\ mstate' = [m \in 1..MaxMsgs |-> IF mstate[m] = "unacked" THEN "ready" ELSE mstate[m]]
    /\ consumer' = [pc |-> "stopped", queue |-> "none"]
    /\ UNCHANGED <<msgs, nacked, next_msg>>

MessageArrives ==
    /\ \E q \in QueueNames : Arrive(q)
    /\ UNCHANGED <<busVars, storeVars, publisherVars, decoratorVars>>
StartConsuming ==
    /\ \E q \in QueueNames : start_consuming(q)
    /\ UNCHANGED <<busVars, storeVars, publisherVars, decoratorVars>>
Delivery ==
    /\ \E b \in MessageSet : Deliver(b)
    /\ UNCHANGED <<busVars, storeVars, publisherVars, decoratorVars>>
RunCallback ==
    /\ Callback
    /\ UNCHANGED <<busVars, storeVars, publisherVars, decoratorVars>>
ReturnToLoop ==
    /\ CallbackReturn
    /\ UNCHANGED <<busVars, storeVars, publisherVars, decoratorVars>>
Interrupt ==
    /\ StopConsumer
    /\ UNCHANGED <<busVars, storeVars, publisherVars, decoratorVars>>

NextBroker ==
    \/ MessageArrives
    \/ StartConsuming
    \/ Delivery
    \/ RunCallback
    \/ ReturnToLoop
    \/ Interrupt

RunCallbackAckRaises ==
    /\ CallbackAckRaises
    /\ UNCHANGED <<busVars, storeVars, publisherVars, decoratorVars>>

\* the consumer on a channel whose basic_ack may raise
NextChannelFaults ==
    \/ NextBroker
    \/ RunCallbackAckRaises

\* ------------------------------------------------------ audit_events table
EventIds == 1..MaxEventIds
\* EventType values (models.py:14-22) of the events persisted in the model
PersistedTypes == {"audit.log", "share.issued", "shareholder.updated"}

\* handle_audit_persistence lines 108-117: action_mapping.get(type, "unknown")
ActionMapping(type) ==
    CASE type = "user.login" -> "login"
      [] type = "user.logout" -> "logout"
      [] type = "shareholder.created" -> "create"
      [] type = "shareholder.updated" -> "update"
      [] type = "share.issued" -> "create"
      [] type = "certificate.generated" -> "generate"
      [] type = "system.error" -> "error"
      [] type = "notification" -> "notification"
      [] OTHER -> "unknown"

\* the actor and resource columns of AuditEvent (app/database/models.py:101-107)
IdFields == {"user_id", "user_email", "user_role", "resource_type", "resource_id"}

\* what a payload or a metadata map holds under the keys of IdFields: "absent",
\* or a value ("p" in payloads, "m" in metadata)
NoIds == [f \in IdFields |-> "absent"]

OnlyUser == [f \in IdFields |-> IF f = "user_id" THEN "p" ELSE "absent"]

\* Event.metadata (models.py:30): {} by default
EmptyMetadata == [empty |-> TRUE, ids |-> NoIds]

\* a metadata map with other keys only, as create_issuance passes
SourceMetadata == [empty |-> FALSE, ids |-> NoIds]

ActorMetadata == [empty |-> FALSE, ids |-> [f \in IdFields |-> "m"]]

\* the events offered to the handlers: what create_issuance publishes
\* (issuances.py:122-146), the same without metadata and without a payload
\* action, and domain events whose identifiers come from the metadata
AuditedEvents ==
    UNION {{[id |-> e, type |-> "audit.log",
             payload |-> [action |-> "create", ids |-> OnlyUser],
             metadata |-> SourceMetadata],
            [id |-> e, type |-> "audit.log",
             payload |-> [action |-> "absent", ids |-> OnlyUser],
             metadata |-> EmptyMetadata],
            [id |-> e, type |-> "share.issued",
             payload |-> [action |-> "absent", ids |-> NoIds],
             metadata |-> ActorMetadata],
            [id |-> e, type |-> "shareholder.updated",
             payload |-> [action |-> "absent", ids |-> OnlyUser],
             metadata |-> ActorMetadata]} : e \in EventIds}

NoAuditedEvent ==
    [id |-> 0, type |-> "none", payload |-> [action |-> "absent", ids |-> NoIds],
     metadata |-> EmptyMetadata]

\* status values callers pass to the service; "archived" is outside the
\* column's documented values (app/database/models.py:121)
StatusInputs == {"pending", "processed", "archived"}

NoOp == [pc |-> "idle", op |-> "none", event_id |-> 0, dup |-> FALSE,
         result |-> "none", count |-> 0, before |-> {},
         event |-> NoAuditedEvent, db_down |-> FALSE,
         cutoff |-> 0, rolled_back |-> FALSE,
         group_by |-> "none", stats |-> {},
         status_arg |-> "none", raises_at |-> 0, passed |-> <<>>]

\* the clock, read by a write to the table: later than every timestamp the
\* table holds
Now(rows) ==
    LET stamps == {r.created_at : r \in rows} \cup {r.processed_at : r \in rows} \cup {0}
    IN  1 + CHOOSE t \in stamps : \A u \in stamps : u <= t

\* a write has returned and its caller has not yet taken the result
StoreReturning == last_op.pc = "returned"

InitStore ==
    /\ store = {}
    /\ next_id = 1
    /\ last_op = NoOp

\* event_id = Column(String(100), unique=True) (app/database/models.py:98):
\* commit() raises IntegrityError. Mutant: the column is not unique.
UniqueViolation_NoConstraint(rows, event_id) == FALSE

UniqueViolation(rows, event_id) == \E r \in rows : r.event_id = event_id

\* db.add + db.commit: the row is stored unless commit() fails, and then the
\* transaction is rolled back (or abandoned with the session)
Commit(rows, row, fails) == IF fails THEN rows ELSE rows \cup {row}

\* handle_audit_persistence lines 126-130:
\*   payload.get(f) or metadata.get(f) if metadata else None
\* is the conditional expression (payload.get(f) or metadata.get(f)) if metadata
\* else None: an empty metadata map gives None whatever the payload holds
Identifier(payload, metadata, f) ==
    IF metadata.empty THEN "none"
    ELSE IF payload.ids[f] # "absent" THEN payload.ids[f]
    ELSE IF metadata.ids[f] # "absent" THEN metadata.ids[f]
    ELSE "none"

\* handle_audit_persistence lines 119-140: the row built from the event at
\* time t; created_at is the server default now(), processed_at utcnow()
AuditRow(id, event, t) ==
    [id |-> id, event_id |-> event.id, event_type |-> event.type,
     action |-> IF event.payload.action # "absent" THEN event.payload.action
                ELSE ActionMapping(event.type),
     status |-> "processed",
     ids |-> [f \in IdFields |-> Identifier(event.payload, event.metadata, f)],
     created_at |-> t, processed_at |-> t]

\* the body of handle_audit_persistence, lines 97-156, run as op: the row is
\* added and committed, or an exception is caught and nothing is stored
Persist(event, db_down, op) ==
    /\ ~StoreReturning
    /\ next_id <= MaxRowId
    /\ Now(store) <= MaxClock
    /\ LET conflict == UniqueViolation(store, event.id)
           fails == conflict \/ db_down
           row == AuditRow(next_id, event, Now(store))
       IN  /\ store' = Commit(store, row, fails)
           /\ next_id' = IF fails THEN next_id ELSE next_id + 1
           /\ last_op' = [NoOp EXCEPT !.pc = "returned", !.op = op,
                          !.event_id = event.id,
                          !.dup = \E r \in store : r.event_id = event.id,
                          !.result = IF fails /\ op # "publish" THEN "false" ELSE "true",
                          !.before = store, !.event = event, !.db_down = db_down]

\* handle_audit_persistence lines 97-156: True after commit, False on any exception
handle_audit_persistence(event, db_down) ==
    Persist(event, db_down, "handle_audit_persistence")

\* the synchronous handlers that importing handlers.py subscribes, by event
\* type (the @event_handler lines 29, 42, 55, 81, 94)
AppHandlers(type) ==
    CASE type = "user.login" -> <<"handle_user_login">>
      [] type = "share.issued" -> <<"handle_share_issued">>
      [] type = "certificate.generated" -> <<"handle_certificate_generated">>
      [] type = "system.error" -> <<"handle_system_error">>
      [] type = "audit.log" -> <<"handle_audit_persistence">>
      [] OTHER -> <<>>

\* event_bus.publish(event) with these handlers subscribed: they run inline
\* (event_bus.py:77-79); only handle_audit_persistence touches the table, the
\* others log and return True (handlers.py:29-65, 81-91)
event_bus_publish(event, db_down) ==
    IF InSeq(AppHandlers(event.type), "handle_audit_persistence")
    THEN Persist(event, db_down, "publish")
    ELSE /\ ~StoreReturning
         /\ last_op' = [NoOp EXCEPT !.pc = "returned", !.op = "publish",
                        !.event_id = event.id, !.result = "true",
                        !.event = event, !.db_down = db_down]
         /\ UNCHANGED <<store, next_id>>

\* AuditEventService.create_event lines 20-34: the row, or AuditEventError after
\* rollback when commit() raises IntegrityError
create_event(event_id, type, action, status) ==
    /\ ~StoreReturning
    /\ next_id <= MaxRowId
    /\ Now(store) <= MaxClock
    /\ LET conflict == UniqueViolation(store, event_id)
           row == [id |-> next_id, event_id |-> event_id, event_type |-> type,
                   action |-> action, status |-> status,
                   ids |-> [f \in IdFields |-> "none"],
                   created_at |-> Now(store), processed_at |-> 0]
       IN  /\ store' = Commit(store, row, conflict)
           /\ next_id' = IF conflict THEN next_id ELSE next_id + 1
           /\ last_op' = [NoOp EXCEPT !.pc = "returned", !.op = "create_event",
                          !.event_id = event_id,
                          !.dup = \E r \in store : r.event_id = event_id,
                          !.result = IF conflict THEN "AuditEventError" ELSE "row",
                          !.before = store]

\* update_event lines 112-114: setattr for every key the row has
SetAttr(r, key, value) ==
    CASE key = "status" -> [r EXCEPT !.status = value]
      [] key = "action" -> [r EXCEPT !.action = value]
      [] key = "event_id" -> [r EXCEPT !.event_id = value]
      [] key = "created_at" -> [r EXCEPT !.created_at = value]
      [] key = "processed_at" -> [r EXCEPT !.processed_at = value]
      [] OTHER -> r

\* AuditEventService.update_event lines 106-122 with a one-key update_data:
\* None when the id is unknown, AuditEventError after rollback when the
\* commit breaks the unique constraint
update_event(id, key, value) ==
    /\ ~StoreReturning
    /\ LET found == {r \in store : r.id = id}
       IN  IF found = {}
           THEN /\ last_op' = [NoOp EXCEPT !.pc = "returned", !.op = "update_event",
                               !.result = "none"]
                /\ UNCHANGED store
           ELSE LET r == CHOOSE x \in found : TRUE
                    r2 == SetAttr(r, key, value)
                    conflict == UniqueViolation(store \ {r}, r2.event_id)
                IN  /\ store' = IF conflict THEN store ELSE (store \ {r}) \cup {r2}
                    /\ last_op' = [NoOp EXCEPT !.pc = "returned", !.op = "update_event",
                                   !.event_id = r.event_id,
                                   !.result = IF conflict THEN "AuditEventError" ELSE "row"]
    /\ UNCHANGED next_id

\* AuditEventService.bulk_update_status lines 124-132: one UPDATE that sets
\* status and processed_at = utcnow() on every row whose id is listed
bulk_update_status(event_ids, status) ==
    /\ ~StoreReturning
    /\ Now(store) <= MaxClock
    /\ LET hit == {r \in store : r.id \in event_ids}
       IN  /\ store' = {IF r \in hit
                        THEN [r EXCEPT !.status = status, !.processed_at = Now(store)]
                        ELSE r : r \in store}
           /\ last_op' = [NoOp EXCEPT !.pc = "returned", !.op = "bulk_update_status",
                          !.result = "count", !.count = Cardinality(hit)]
    /\ UNCHANGED next_id

\* the UPDATE of mark_as_processed (audit_event_consumer.py:243-248) at time t
MarkProcessed(rows, event_ids, t) ==
    {IF r.event_id \in event_ids
     THEN [r EXCEPT !.status = "processed", !.processed_at = t]
     ELSE r : r \in rows}

\* the UPDATE of process_events_batch's except clause (lines 296-298)
MarkFailed(rows, event_ids) ==
    {IF r.event_id \in event_ids THEN [r EXCEPT !.status = "failed"] ELSE r : r \in rows}

\* AuditEventConsumer.mark_as_processed lines 241-251
mark_as_processed(event_ids) ==
    /\ ~StoreReturning
    /\ Now(store) <= MaxClock
    /\ LET hit == {r \in store : r.event_id \in event_ids}
       IN  /\ store' = MarkProcessed(store, event_ids, Now(store))
           /\ last_op' = [NoOp EXCEPT !.pc = "returned", !.op = "mark_as_processed",
                          !.result = "count", !.count = Cardinality(hit)]
    /\ UNCHANGED next_id

\* process_events_batch lines 277-279: the ids of the rows with the status,
\* in primary-key order
IdsWithStatus(rows, status) ==
    SelectSeq([i \in 1..MaxRowId |-> i],
              LAMBDA i : \E r \in rows : r.id = i /\ r.status = status)

\* .offset(offset).limit(batch_size)
Page(s, offset, size) ==
    SubSeq(s, offset + 1, IF offset + size < Len(s) THEN offset + size ELSE Len(s))

\* process_events_batch lines 274-301, from its n-th turn of the loop on:
\* processor_func raises in turn raises_at (0: never)
RECURSIVE BatchLoop(_, _, _, _, _, _, _)
BatchLoop(rows, offset, size, status, raises_at, n, t) ==
    LET page == Page(IdsWithStatus(rows, status), offset, size)
        event_ids == {r.event_id : r \in {x \in rows : InSeq(page, x.id)}}
    IN  IF page = <<>> THEN rows
        ELSE BatchLoop(IF n = raises_at THEN MarkFailed(rows, event_ids)
                       ELSE MarkProcessed(rows, event_ids, t),
                       offset + size, size, status, raises_at, n + 1, t)

\* process_events_batch line 284: the ids of the rows handed to processor_func
\* over the turns of the loop, in order
RECURSIVE BatchPassed(_, _, _, _, _, _, _)
BatchPassed(rows, offset, size, status, raises_at, n, t) ==
    LET page == Page(IdsWithStatus(rows, status), offset, size)
        event_ids == {r.event_id : r \in {x \in rows : InSeq(page, x.id)}}
    IN  IF page = <<>> THEN <<>>
        ELSE page \o BatchPassed(IF n = raises_at THEN MarkFailed(rows, event_ids)
                                 ELSE MarkProcessed(rows, event_ids, t),
                                 offset + size, size, status, raises_at, n + 1, t)

\* AuditEventConsumer.process_events_batch lines 265-301; the turns of one
\* call are stamped with the time of the call
process_events_batch(raises_at, batch_size, status) ==
    /\ ~StoreReturning
    /\ Now(store) <= MaxClock
    /\ LET after == BatchLoop(store, 0, batch_size, status, raises_at, 1, Now(store))
       IN  /\ store' = after
           /\ last_op' = [NoOp EXCEPT !.pc = "returned", !.op = "process_events_batch",
                          !.result = "none", !.before = store,
                          !.status_arg = status, !.raises_at = raises_at,
                          !.passed = BatchPassed(store, 0, batch_size, status,
                                                 raises_at, 1, Now(store))]
    /\ UNCHANGED next_id

\* AuditEventService.delete_event lines 134-140
delete_event(id) ==
    /\ ~StoreReturning
    /\ store' = {r \in store : r.id # id}
    /\ last_op' = [NoOp EXCEPT !.pc = "returned", !.op = "delete_event",
                   !.result = IF \E r \in store : r.id = id THEN "true" ELSE "false"]
    /\ UNCHANGED next_id

\* delete_old_events line 258: created_at < cutoff_date. Mutant: <=.
Expired_Inclusive(created_at, cutoff) == created_at <= cutoff

Expired(created_at, cutoff) == created_at < cutoff

\* AuditEventConsumer.delete_old_events lines 253-263: cutoff = now - days, one
\* DELETE, commit, the number of rows deleted. A database error is not caught:
\* it reaches the caller and nothing was committed.
delete_old_events(days, db_fails) ==
    /\ ~StoreReturning
    /\ LET cutoff == Now(store) - days
           gone == {r \in store : Expired(r.created_at, cutoff)}
       IN  /\ store' = IF db_fails THEN store ELSE store \ gone
           /\ last_op' = [NoOp EXCEPT !.pc = "returned", !.op = "delete_old_events",
                          !.result = IF db_fails THEN "raised" ELSE "count",
                          !.count = IF db_fails THEN 0 ELSE Cardinality(gone),
                          !.before = store, !.db_down = db_fails,
                          !.cutoff = IF db_fails THEN 0 ELSE cutoff]
    /\ UNCHANGED next_id

\* AuditService.cleanup_old_audit_events when the DELETE raises a database
\* error: rollback, and 0 is returned. Mutant: the error reaches the caller.
CleanupOnError_Raises == [result |-> "raised", rolled_back |-> FALSE]

CleanupOnError == [result |-> "count", rolled_back |-> TRUE]

\* AuditService.cleanup_old_audit_events(db, days_to_keep), the operation
\* behind POST /audit/cleanup (audit_api.py:274): deletes the rows older than
\* the cutoff, commits and returns their number
cleanup_old_audit_events(days_to_keep, db_fails) ==
    /\ ~StoreReturning
    /\ LET cutoff == Now(store) - days_to_keep
           gone == {r \in store : Expired(r.created_at, cutoff)}
       IN  /\ store' = IF db_fails THEN store ELSE store \ gone
           /\ last_op' = [NoOp EXCEPT !.pc = "returned",
                          !.op = "cleanup_old_audit_events",
                          !.result = IF db_fails THEN CleanupOnError.result ELSE "count",
                          !.rolled_back = db_fails /\ CleanupOnError.rolled_back,
                          !.count = IF db_fails THEN 0 ELSE Cardinality(gone),
                          !.before = store, !.db_down = db_fails, !.cutoff = cutoff]
    /\ UNCHANGED next_id

\* get_stats line 145: getattr(AuditEvent, group_by, AuditEvent.event_type)
GroupColumn(group_by) ==
    IF group_by \in {"event_type", "action", "status"} THEN group_by ELSE "event_type"

\* get_stats lines 146-150: SELECT col, count(id) ... GROUP BY col, as a set of
\* (key, count) entries. Mutant: the count is not restricted to the group.
Stats_CountAll(rows, col) ==
    {[key |-> k, n |-> Cardinality(rows)] : k \in {r[col] : r \in rows}}

Stats(rows, col) ==
    {[key |-> k, n |-> Cardinality({r \in rows : r[col] = k})] : k \in {r[col] : r \in rows}}

\* AuditEventService.get_stats lines 143-150 (AuditEventConsumer.get_activity_stats
\* without dates, lines 120-144, computes the same)
get_stats(group_by) ==
    /\ ~StoreReturning
    /\ last_op' = [NoOp EXCEPT !.pc = "returned", !.op = "get_stats",
                   !.result = "stats", !.group_by = group_by,
                   !.stats = Stats(store, GroupColumn(group_by))]
    /\ UNCHANGED <<store, next_id>>

StoreReturn ==
    /\ StoreReturning
    /\ last_op' = NoOp
    /\ UNCHANGED <<store, next_id>>

PersistEvent ==
    /\ \E e \in AuditedEvents, d \in BOOLEAN : handle_audit_persistence(e, d)
    /\ UNCHANGED <<busVars, brokerVars, publisherVars, decoratorVars>>
PublishAudited ==
    /\ \E e \in AuditedEvents, d \in BOOLEAN : event_bus_publish(e, d)
    /\ UNCHANGED <<busVars, brokerVars, publisherVars, decoratorVars>>
CreateEvent ==
    /\ \E e \in EventIds, s \in {"processed", "pending"} :
          create_event(e, "audit.log", "create", s)
    /\ UNCHANGED <<busVars, brokerVars, publisherVars, decoratorVars>>
UpdateEvent ==
    /\ \E id \in 1..MaxRowId :
          \/ \E s \in StatusInputs : update_event(id, "status", s)
          \/ \E e \in EventIds : update_event(id, "event_id", e)
          \/ Now(store) <= MaxClock /\ update_event(id, "created_at", Now(store))
          \/ update_event(id, "note", "n")
    /\ UNCHANGED <<busVars, brokerVars, publisherVars, decoratorVars>>
BulkUpdateStatus ==
    /\ \E ids \in SUBSET (1..MaxRowId), s \in StatusInputs : bulk_update_status(ids, s)
    /\ UNCHANGED <<busVars, brokerVars, publisherVars, decoratorVars>>
MarkAsProcessed ==
    /\ \E ids \in SUBSET EventIds : mark_as_processed(ids)
    /\ UNCHANGED <<busVars, brokerVars, publisherVars, decoratorVars>>
ProcessEventsBatch ==
    /\ \E f \in 0..2, n \in 1..MaxBatchSize, s \in {"pending", "processed"} :
          process_events_batch(f, n, s)
    /\ UNCHANGED <<busVars, brokerVars, publisherVars, decoratorVars>>
DeleteEvent ==
    /\ \E id \in 1..MaxRowId : delete_event(id)
    /\ UNCHANGED <<busVars, brokerVars, publisherVars, decoratorVars>>
DeleteOldEvents ==
    /\ \E d \in 0..MaxDays, f \in BOOLEAN : delete_old_events(d, f)
    /\ UNCHANGED <<busVars, brokerVars, publisherVars, decoratorVars>>
CleanupOldAuditEvents ==
    /\ \E d \in 0..MaxDays, f \in BOOLEAN : cleanup_old_audit_events(d, f)
    /\ UNCHANGED <<busVars, brokerVars, publisherVars, decoratorVars>>
GetStats ==
    /\ \E g \in {"action", "kind"} : get_stats(g)
    /\ UNCHANGED <<busVars, brokerVars, publisherVars, decoratorVars>>
ReturnFromStore ==
    /\ StoreReturn
    /\ UNCHANGED <<busVars, brokerVars, publisherVars, decoratorVars>>

NextStore ==
    \/ PersistEvent
    \/ PublishAudited
    \/ CreateEvent
    \/ UpdateEvent
    \/ BulkUpdateStatus
    \/ MarkAsProcessed
    \/ ProcessEventsBatch
    \/ DeleteEvent
    \/ DeleteOldEvents
    \/ CleanupOldAuditEvents
    \/ GetStats
    \/ ReturnFromStore

\* ------------------------------------------------------ durable publisher
\* get_audit_publisher, get_notification_publisher, get_system_publisher
PublisherNames == {"audit", "notification", "system"}

\* the routing key each publish_* method passes to _publish_message, word by word
RoutingKey(body) ==
    CASE body.event_type = "user_login" -> <<"audit", "user", "login">>
      [] body.event_type = "user_logout" -> <<"audit", "user", "logout">>
      [] body.event_type = "shareholder_created" -> <<"audit", "shareholder", "created">>
      [] body.event_type = "shareholder_updated" -> <<"audit", "shareholder", "updated">>
      [] body.event_type = "share_issued" -> <<"audit", "share", "issued">>
      [] body.event_type = "certificate_generated" -> <<"audit", "certificate", "generated">>
      [] body.event_type = "permission_changed" -> <<"audit", "permission", "changed">>
      [] body.event_type = "data_export" -> <<"audit", "data", "export">>
      [] body.event_type = "system_error" -> <<"audit", "system", "error">>
      [] body.event_type = "notification" ->
            CASE body.payload.notification_type = "share_issuance" ->
                    <<"notification", "share", "issuance">>
              [] body.payload.notification_type = "certificate_generated" ->
                    <<"notification", "certificate", "generated">>
              [] OTHER -> <<"notification", "system", "alert">>
      [] OTHER ->
            CASE body.payload.event = "application_startup" ->
                    <<"system", "application", "startup">>
              [] OTHER -> <<"system", "database", "backup">>

\* the messages each publisher sends
MessagesOf(name) ==
    CASE name = "audit" -> PublisherAuditMessages
      [] name = "notification" -> {NotificationMessage(nt) : nt \in NotificationTypes}
      [] OTHER -> {SystemMessage(e) : e \in SystemEvents}

\* _declare_queues_and_exchanges lines 72-86: the bindings of the topic exchange
Bindings ==
    [events |-> <<"events", "*">>,
     audit_events |-> <<"audit", "*">>,
     notifications |-> <<"notification", "*">>]

\* AMQP topic match for patterns without "#": word for word, "*" is one word
TopicMatch(pattern, key) ==
    /\ Len(pattern) = Len(key)
    /\ \A i \in 1..Len(pattern) : pattern[i] = "*" \/ pattern[i] = key[i]

\* the queues the exchange copies a message to
Route(key) == {q \in QueueNames : TopicMatch(Bindings[q], key)}

\* connection: "none" (never connected), "open", "stale" (is_closed is False but
\* the server behind it is gone), "closed"; channel: "none", "open", "closed"
NewPublisher == [connection |-> "none", channel |-> "none"]

NoSend == [pc |-> "idle", publisher |-> "none", before |-> "none",
           failure |-> "none", result |-> "none"]

PublisherReturning == last_send.pc = "returned"

InitPublisher ==
    /\ publishers = [n \in PublisherNames |-> NewPublisher]
    /\ broker_up = TRUE
    /\ last_send = NoSend

\* _publish_message line 108. Mutant: only `if not self.connection`.
NeedsConnect_OnlyNone(pb) == pb.connection = "none"

NeedsConnect(pb) == pb.connection \in {"none", "closed"}

\* connect, lines 31-53, then _declare_queues_and_exchanges: the publisher after
\* the call, and whether the call raised. fault = "declare": the server refuses
\* a declaration and closes the channel.
Connect(pb, up, fault) ==
    IF ~up THEN [pb |-> pb, failure |-> "connect"]
    ELSE IF fault = "declare"
    THEN [pb |-> [connection |-> "open", channel |-> "closed"], failure |-> "declare"]
    ELSE [pb |-> [connection |-> "open", channel |-> "open"], failure |-> "none"]

\* basic_publish, lines 111-120. fault = "send": json.dumps or the channel raises
Send(pb, fault) ==
    IF pb.channel # "open" THEN [pb |-> pb, failure |-> "channel"]
    ELSE IF pb.connection = "stale"
    THEN [pb |-> [connection |-> "closed", channel |-> "closed"], failure |-> "stale"]
    ELSE IF fault = "send" THEN [pb |-> pb, failure |-> "send"]
    ELSE [pb |-> pb, failure |-> "none"]

\* _publish_message lines 107-127: True, or False from the except clause.
\* Mutant: no except clause.
SendResult_Propagates(failure) == IF failure = "none" THEN "true" ELSE "raised"

SendResult(failure) == IF failure = "none" THEN "true" ELSE "false"

\* one call of a publish_* method: _publish_message with its message and key
publish_message(name, body, fault) ==
    /\ ~PublisherReturning
    /\ next_msg <= MaxMsgs
    /\ LET pb == publishers[name]
           c == IF NeedsConnect(pb) THEN Connect(pb, broker_up, fault)
                ELSE [pb |-> pb, failure |-> "none"]
           r == IF c.failure # "none" THEN c ELSE Send(c.pb, fault)
           sent == r.failure = "none"
           to == Route(RoutingKey(body))
       IN  /\ publishers' = [publishers EXCEPT ![name] = r.pb]
           /\ last_send' = [pc |-> "returned", publisher |-> name,
                            before |-> pb.connection, failure |-> r.failure,
                            result |-> SendResult(r.failure)]
           /\ IF sent
              THEN /\ next_msg' = next_msg + 1
                   /\ msgs' = [msgs EXCEPT ![next_msg] = IF to = {} THEN NoBody ELSE body]
                   /\ mstate' = [mstate EXCEPT ![next_msg] =
                                    IF to = {} THEN "unroutable" ELSE "ready"]
                   /\ queues' = [q \in QueueNames |->
                                    IF q \in to THEN Append(queues[q], next_msg)
                                    ELSE queues[q]]
              ELSE UNCHANGED <<next_msg, msgs, mstate, queues>>
    /\ UNCHANGED <<broker_up, nacked, consumer, cb>>

\* the caller of the publish_* method takes the result
SendReturn ==
    /\ PublisherReturning
    /\ last_send' = NoSend
    /\ UNCHANGED <<publishers, broker_up, brokerVars>>

\* disconnect, lines 88-95
disconnect(name) ==
    /\ ~PublisherReturning
    /\ publishers[name].connection \in {"open", "stale"}
    /\ publishers' = [publishers EXCEPT ![name] = [connection |-> "closed",
                                                    channel |-> "closed"]]
    /\ UNCHANGED <<broker_up, last_send, brokerVars>>

\* the server goes away: the connections made to it are dead, which a
\* BlockingConnection notices at its next use only
BrokerStops ==
    /\ ~PublisherReturning
    /\ broker_up
    /\ broker_up' = FALSE
    /\ publishers' = [n \in PublisherNames |->
                         IF publishers[n].connection = "open"
                         THEN [publishers[n] EXCEPT !.connection = "stale"]
                         ELSE publishers[n]]
    /\ UNCHANGED <<last_send, brokerVars>>

BrokerStarts ==
    /\ ~PublisherReturning
    /\ ~broker_up
    /\ broker_up' = TRUE
    /\ UNCHANGED <<publishers, last_send, brokerVars>>

PublishMessage ==
    /\ \E n \in PublisherNames, f \in {"none", "declare", "send"} :
          \E b \in MessagesOf(n) : publish_message(n, b, f)
    /\ UNCHANGED <<busVars, storeVars, decoratorVars>>
ReturnFromSend ==
    /\ SendReturn
    /\ UNCHANGED <<busVars, storeVars, decoratorVars>>
Disconnect ==
    /\ \E n \in PublisherNames : disconnect(n)
    /\ UNCHANGED <<busVars, storeVars, decoratorVars>>
BrokerDown ==
    /\ BrokerStops
    /\ UNCHANGED <<busVars, storeVars, decoratorVars>>
BrokerUp ==
    /\ BrokerStarts
    /\ UNCHANGED <<busVars, storeVars, decoratorVars>>

NextPublisher ==
    \/ PublishMessage
    \/ ReturnFromSend
    \/ Disconnect
    \/ BrokerDown
    \/ BrokerUp

Init == InitBus /\ InitBroker /\ InitStore /\ InitPublisher /\ InitDecorators

SpecBus == Init /\ [][NextBus]_vars

SpecLifecycle == Init /\ [][NextLifecycle]_vars

SpecBroker == Init /\ [][NextBroker]_vars

SpecStore == Init /\ [][NextStore]_vars

SpecPublisher == Init /\ [][NextPublisher]_vars

SpecDecorators == Init /\ [][NextDecorators]_vars

SpecChannelFaults == Init /\ [][NextChannelFaults]_vars

\* The event loop runs its ready tasks and the worker its loop; publish()
\* returns to its caller. Handlers are the subscribers' code: nothing makes one
\* return, so AsyncReturn carries no fairness.
LiveBus ==
    /\ SpecBus
    /\ WF_vars(RunPut)
    /\ WF_vars(Take)
    /\ WF_vars(Done)
    /\ WF_vars(Return)

\* The broker pushes a ready message to a consumer that has no unacknowledged
\* one, and pika's blocking loop runs the callback and returns to the loop.
\* a caller of the table's operations takes the result it is handed
LiveStore == SpecStore /\ WF_vars(ReturnFromStore)

LiveBroker ==
    /\ SpecBroker
    /\ WF_vars(Delivery)
    /\ WF_vars(RunCallback)
    /\ WF_vars(ReturnToLoop)

\* ------------------------------------------------------ claims on the bus
\* the handlers a returned publish() invoked, in order
Invoked == [i \in 1..Len(pub.log) |-> pub.log[i].h]

Failed(entry) == entry.out \in {"false", "raise"}

\* C1: when publish() returns and no subscribe/unsubscribe touched the list during
\* the dispatch, the synchronous handlers it invoked are exactly the handlers
\* registered for the event's kind, each once and in subscription order,
\* whatever the earlier handlers returned or raised.
C1_SyncHandlersOnceInOrder ==
    (Returning /\ ~pub.mutated) => Invoked = handlers[pub.ev.kind]

\* C1 witness: a dispatch whose first handler raised and whose second handler,
\* a different callable, was still invoked.
C1_Witness ==
    /\ Returning /\ ~pub.mutated
    /\ Len(pub.log) = 2
    /\ pub.log[1].out = "raise"
    /\ pub.log[1].h # pub.log[2].h

\* C9: publish() always returns a boolean (nothing propagates to the caller),
\* and the boolean is True whenever the hand-off to the queue did not fail,
\* whatever the synchronous handlers did.
C9_PublishResultIgnoresHandlers ==
    Returning => (pub.result \in BOOLEAN /\ (~pub.raised => pub.result = TRUE))

\* C9 witness: publish() returned True although every synchronous handler of
\* the kind raised or returned False.
C9_Witness ==
    /\ Returning
    /\ pub.result = TRUE
    /\ Len(pub.log) = 2
    /\ pub.log[1].out = "raise" /\ pub.log[2].out = "false"

OnlyAsync(kind) == handlers[kind] = <<>> /\ async_handlers[kind] # <<>>

\* C10: when publish() returns for an event whose kind has only asynchronous
\* handlers, no asynchronous handler has ended for that event, and publish()
\* itself invoked none of them: they run in the worker's tasks only.
C10_AsyncNotInline ==
    (Returning /\ OnlyAsync(pub.ev.kind)) =>
        (~pub.async_seen /\ \A i \in 1..Len(pub.log) : pub.log[i].reg = "sync")

\* C10 witness: publish() returned True for such an event while the event is
\* still waiting to be put on the queue and a worker is running.
C10_Witness ==
    /\ Returning /\ OnlyAsync(pub.ev.kind)
    /\ pub.result = TRUE
    /\ running
    /\ InSeq(put_tasks, pub.ev)

\* events handed to the queue: put scheduled, or already in the queue
Waiting == event_queue \o put_tasks

Count(seq, x) == Cardinality({i \in 1..Len(seq) : seq[i] = x})

\* C11: when publish() returns, the event is on its way to the queue exactly
\* once if an asynchronous handler was registered for its kind, and not at all
\* (the queue is as it was) if none was.
C11_QueuedOnceIffAsyncRegistered ==
    Returning => Count(Waiting, pub.ev) = (IF pub.async_registered THEN 1 ELSE 0)

\* C12: while a worker handles a dequeued event there is one task per handler
\* registered for the kind, every task that has ended ended by its own
\* handler's return or exception (none was cancelled because another raised),
\* and the event is not back in the queue.
C12_AsyncHandlersOnceNoRetry ==
    \A w \in 1..MaxWorkers :
        workers[w].pc = "handling" =>
            /\ Len(workers[w].tasks) = Len(workers[w].hs)
            /\ \A i \in 1..Len(workers[w].tasks) :
                   workers[w].tasks[i] \in Outcomes \cup {"pending"}
            /\ Count(Waiting, workers[w].ev) = 0

\* C12 witness: of two handlers of one event the first raised and the second
\* returned normally; the worker is about to drop the event.
C12_Witness ==
    \E w \in 1..MaxWorkers :
        /\ workers[w].pc = "handling"
        /\ workers[w].tasks = <<"raise", "ok">>

\* C13: every dequeue takes the event published before all the events that are
\* still waiting (Event ids count the publish() calls).
C13_FifoAcrossEvents ==
    [][Len(event_queue') < Len(event_queue) =>
        \A i \in 1..Len(Waiting') : Head(event_queue).id < Waiting'[i].id]_vars

\* C13 witness: a worker handles the first event while the second one waits in
\* the queue.
C13_Witness ==
    \E w \in 1..MaxWorkers :
        /\ workers[w].pc = "handling"
        /\ workers[w].ev.id = 1
        /\ event_queue # <<>>
        /\ Head(event_queue).id = 2

\* C14: an event that is in the queue while a worker is alive is eventually
\* dequeued, whether or not the handlers of the event being handled return.
C14_HungHandlerDoesNotBlock ==
    \A n \in 1..MaxEvents :
        []((\E i \in 1..Len(event_queue) : event_queue[i].id = n) /\ (\E w \in 1..MaxWorkers : Alive(w))
            => <>(\A i \in 1..Len(event_queue) : event_queue[i].id # n))

\* C15: whatever start() and stop() calls were made, at most one worker loop
\* is alive.
C15_AtMostOneWorker ==
    Cardinality({w \in 1..MaxWorkers : Alive(w)}) <= 1

\* C16: no worker was cut while handlers of its event had not returned, and no
\* worker dequeued an event after stop() had cleared _running.
C16_StopLetsWorkerFinish ==
    \A w \in 1..MaxWorkers : ~workers[w].aborted /\ ~workers[w].late

\* C17: a step that is an unsubscribe of a registered handler leaves no
\* occurrence of the handler in the selected registry (publish() and the worker
\* read the registries, so it is invoked no more).
C17_UnsubscribeRemoves ==
    [][\A k \in BusKinds, h \in Handlers :
          /\ (InSeq(handlers[k], h) /\ handlers'[k] = RemoveFirst(handlers[k], h))
                => ~InSeq(handlers'[k], h)
          /\ (InSeq(async_handlers[k], h)
                /\ async_handlers'[k] = RemoveFirst(async_handlers[k], h))
                => ~InSeq(async_handlers'[k], h)]_vars

\* C18: when publish() returns, every handler that no subscribe or unsubscribe
\* touched during the dispatch was invoked as many times as it is registered,
\* whatever happened to the other handlers meanwhile.
C18_UntouchedHandlersInvokedOnce ==
    Returning =>
        \A h \in Handlers \ pub.touched :
            Count(Invoked, h) = Count(handlers[pub.ev.kind], h)

\* C19: the queue has a capacity: with enough publishes (MaxEvents stands for
\* that number) its depth stays below the number of events published.
C19_QueueDepthBounded ==
    Len(event_queue) < MaxEvents

\* ------------------------------------------- claims on the consumer
Recognised(category) == category \in {"audit", "notification", "system"}

\* C2: for a decoded message of a recognised category, callback() calls
\* basic_ack exactly when the category handler returned True; when the handler
\* returned False or raised, its only call is basic_nack(requeue=True).
C2_AckIffHandlerTrue ==
    (CallbackReturning /\ Recognised(cb.category)) =>
        /\ InSeq(cb.calls, "ack") <=> cb.handler = "true"
        /\ cb.handler \in {"false", "raised"} => cb.calls = <<"nack_requeue">>

\* C2 witness: the audit handler raised (the payload is no object) and the
\* message was nacked with requeue.
C2_Witness ==
    /\ CallbackReturning
    /\ cb.category = "audit"
    /\ cb.handler = "raised"
    /\ cb.calls = <<"nack_requeue">>

\* C4: a decoded message whose event_type belongs to no category is acked by
\* every run of callback() on it, so the consumer never nacks or requeues it.
C4_UnknownTypeAcked ==
    /\ (CallbackReturning /\ cb.decoded /\ cb.category = "unknown") =>
           (cb.calls = <<"ack">> /\ mstate[cb.msg] = "acked")
    /\ \A m \in 1..MaxMsgs :
           (msgs[m].enc = "json" /\ Category(msgs[m].event_type) = "unknown") => ~nacked[m]

\* C4 witness: callback() has run on a message of type "unknown_event".
C4_Witness ==
    /\ CallbackReturning
    /\ cb.body.event_type = "unknown_event"
    /\ cb.calls = <<"ack">>

\* C5: a body that cannot be decoded is acknowledged and never requeued.
C5_UndecodableAcked ==
    (CallbackReturning /\ ~cb.decoded) => (cb.calls = <<"ack">> /\ mstate[cb.msg] = "acked")

\* C6: a message built by AuditEventPublisher is dispatched to the operation
\* of its kind and acknowledged.
C6_PublisherAuditDispatchedAndAcked ==
    (CallbackReturning /\ cb.body \in {AuditMessage(k) : k \in AuditKinds}) =>
        (cb.op = cb.body.event_type /\ cb.calls = <<"ack">>)

\* a run of callback() on message m whose handler raised
HandlerRaisedOn(m) == CallbackReturning /\ cb.msg = m /\ cb.handler = "raised"

\* C7: an acknowledged message stays acknowledged (it is never ready or
\* delivered again); a delivery whose handler raised made exactly one call,
\* basic_nack(requeue=True), and left the message at the head of its queue; and
\* that message is then delivered again unless the consumer stops first.
C7_MessageLifecycle ==
    /\ [][\A m \in 1..MaxMsgs : mstate[m] = "acked" => mstate'[m] = "acked"]_vars
    /\ [](\A m \in 1..MaxMsgs : HandlerRaisedOn(m) =>
            /\ cb.calls = <<"nack_requeue">>
            /\ mstate[m] = "ready"
            /\ queues[consumer.queue] # <<>> /\ Head(queues[consumer.queue]) = m)
    /\ \A m \in 1..MaxMsgs :
           [](HandlerRaisedOn(m) => <>(mstate[m] = "unacked" \/ consumer.pc = "stopped"))

\* C7 witness: a message the consumer nacked after its handler raised is in the
\* callback again.
C7_Witness ==
    \E m \in 1..MaxMsgs :
        /\ consumer.pc = "callback" /\ cb.msg = m
        /\ mstate[m] = "unacked"
        /\ nacked[m]
        /\ ~msgs[m].payload.is_dict

\* C23: a message waiting in any of the three queues while a consumer runs is
\* eventually delivered to the callback, unless the consumer is stopped first.
C23_EveryQueueDrained ==
    \A m \in 1..MaxMsgs :
        []((mstate[m] = "ready" /\ consumer.pc # "stopped") =>
              <>(mstate[m] = "unacked" \/ consumer.pc = "stopped"))

\* C24: the consumer never holds more than one unacknowledged message, and a
\* message is delivered only when the consumer holds none.
C24_OneUnackedAtATime ==
    /\ [](Cardinality(Unacked) <= PrefetchCount)
    /\ [][\A m \in 1..MaxMsgs :
            (mstate[m] # "unacked" /\ mstate'[m] = "unacked") => Unacked = {}]_vars

\* C24 witness: a callback is running on an unacknowledged message while
\* another message waits in the consumed queue.
C24_Witness ==
    /\ consumer.pc = "callback"
    /\ mstate[cb.msg] = "unacked"
    /\ queues[consumer.queue] # <<>>
    /\ mstate[Head(queues[consumer.queue])] = "ready"

\* C25: a message leaves its queue for good only in the step in which the
\* callback running on it calls basic_ack; and when the consumer is stopped
\* while it holds an unacknowledged message, that message is ready again at
\* the head of its queue with its body unchanged, so that the next consumer of
\* the queue receives it first.
C25_RemovedOnlyByAck ==
    /\ [][\A m \in 1..MaxMsgs :
            (mstate[m] # mstate'[m] /\ mstate'[m] \in {"acked", "dropped"}) =>
                /\ consumer.pc = "callback" /\ cb.msg = m
                /\ mstate[m] = "unacked"
                /\ cb'.calls = <<"ack">>]_vars
    /\ [][\A m \in 1..MaxMsgs :
            (mstate[m] = "unacked" /\ consumer'.pc = "stopped") =>
                /\ mstate'[m] = "ready"
                /\ queues'[consumer.queue] # <<>>
                /\ Head(queues'[consumer.queue]) = m
                /\ msgs'[m] = msgs[m]]_vars

\* C25 witness: the consumer was stopped between a delivery and its
\* acknowledgment (the message has the body of that delivery and was never
\* nacked): the message is ready at the head of its queue.
C25_Witness ==
    \E m \in 1..MaxMsgs :
        /\ consumer.pc = "stopped"
        /\ mstate[m] = "ready"
        /\ msgs[m] # NoBody
        /\ ~nacked[m]
        /\ \E q \in QueueNames : queues[q] # <<>> /\ Head(queues[q]) = m

\* ------------------------------------------- claims on the publisher
\* C20: when a publish_* call returns, its result is a boolean (nothing was
\* raised to the caller), and it is False whenever connecting, declaring or
\* sending failed.
C20_TransportFailureReturnsFalse ==
    PublisherReturning =>
        /\ last_send.result \in {"true", "false"}
        /\ last_send.failure # "none" => last_send.result = "false"

\* C20 witness: a publish returned False because the server could not be
\* reached, and the publisher still has no connection.
C20_Witness ==
    /\ PublisherReturning
    /\ last_send.failure = "connect"
    /\ last_send.result = "false"
    /\ publishers[last_send.publisher].connection \in {"none", "closed"}

\* C21: a publish issued while the publisher has no connection or a closed
\* one connects and declares before it sends: it never sends on the old
\* channel, it fails to connect only while the server is down, and when it
\* did not fail the publisher holds an open connection and channel.
C21_ReconnectsBeforeSending ==
    (PublisherReturning /\ last_send.before \in {"none", "closed"}) =>
        /\ last_send.failure \notin {"channel", "stale"}
        /\ broker_up => last_send.failure # "connect"
        /\ last_send.failure = "none" =>
              /\ last_send.result = "true"
              /\ publishers[last_send.publisher] =
                    [connection |-> "open", channel |-> "open"]

\* C21 witness: a publish found the connection closed (after a failed publish
\* on a dead connection, or a disconnect), reconnected and returned True.
C21_Witness ==
    /\ PublisherReturning
    /\ last_send.before = "closed"
    /\ last_send.result = "true"
    /\ publishers[last_send.publisher].connection = "open"

\* C22: a message the audit publisher has sent is in the audit queue, and
\* a message the notification publisher has sent is in the notifications
\* queue (no consumer has taken it yet when the publish call returns).
C22_AuditAndNotificationRouted ==
    (PublisherReturning /\ last_send.result = "true") =>
        /\ last_send.publisher = "audit" =>
              InSeq(queues["audit_events"], next_msg - 1)
        /\ last_send.publisher = "notification" =>
              InSeq(queues["notifications"], next_msg - 1)

\* ------------------------------------------- claims on the audit table
\* C3: the table never holds two rows with the same event_id, whatever
\* sequence of inserts (repeated ones included) and deletes ran.
C3_OneRowPerEventId ==
    \A r1, r2 \in store : r1.event_id = r2.event_id => r1 = r2

\* C3 witness: an insert of an event_id that was already stored has returned.
C3_Witness ==
    /\ StoreReturning
    /\ last_op.dup
    /\ \E r \in store : r.event_id = last_op.event_id

\* C8: persisting an already stored event_id neither raises nor
\* reports failure, and leaves the table as it was.
C8_DuplicateIsSuccess ==
    (StoreReturning /\ last_op.dup) =>
        (last_op.result \in {"true", "row"} /\ store = last_op.before)

\* C26: in the row handle_audit_persistence stored, each actor/resource
\* identifier is the payload's value when the payload has one, else the
\* metadata's value when the metadata has one, else null.
C26_PayloadThenMetadata ==
    (StoreReturning /\ last_op.op = "handle_audit_persistence" /\ last_op.result = "true") =>
        \E r \in store :
            /\ r.event_id = last_op.event_id
            /\ \A f \in IdFields :
                  r.ids[f] = IF last_op.event.payload.ids[f] # "absent"
                             THEN last_op.event.payload.ids[f]
                             ELSE IF last_op.event.metadata.ids[f] # "absent"
                             THEN last_op.event.metadata.ids[f]
                             ELSE "none"

\* C27: once a share.issued event has been published with the database
\* reachable, the table eventually holds a row for that event with action
\* "create" and status "processed".
C27_ShareIssuedAudited ==
    \A e \in EventIds :
        []((/\ StoreReturning
            /\ last_op.op = "publish"
            /\ last_op.event.type = "share.issued"
            /\ last_op.event_id = e
            /\ ~last_op.db_down) =>
              <>(\E r \in store : /\ r.event_id = e
                                  /\ r.action = "create"
                                  /\ r.status = "processed"))

\* C28: every stored row's status is pending, processed or failed.
C28_StatusDomain ==
    \A r \in store : r.status \in {"pending", "processed", "failed"}

\* C29: a step leaves each stored row as it is, or deletes it, or is a bulk
\* status update (bulk_update_status, mark_as_processed, the batch run built
\* on it) that changes nothing but status and processed_at; and no step
\* changes a stored row's created_at or event_id.
C29_OnlyCleanupOrBulkStatus ==
    [][\A r \in store :
         LET after == {x \in store' : x.id = r.id}
         IN  /\ \/ after = {r}
                \/ after = {} /\ last_op'.op = "delete_event"
                \/ /\ last_op'.op \in {"bulk_update_status", "mark_as_processed",
                                       "process_events_batch"}
                   /\ after # {}
                   /\ \A x \in after :
                         [x EXCEPT !.status = r.status,
                                   !.processed_at = r.processed_at] = r
             /\ \A x \in after : x.created_at = r.created_at /\ x.event_id = r.event_id]_vars

\* C30: a stored row's processed_at, once non-null, keeps its value for as
\* long as the row is stored.
C30_ProcessedAtSetOnce ==
    [][\A r \in store, x \in store' :
         (x.id = r.id /\ r.processed_at # 0) => x.processed_at = r.processed_at]_vars

\* C31: a cleanup that returned has deleted exactly the rows whose
\* created_at was earlier than the cutoff (now minus the days kept), left
\* every other row as it was, and returned the number of rows it deleted.
C31_CleanupDeletesExactlyOld ==
    (StoreReturning /\ last_op.op = "delete_old_events" /\ last_op.result = "count") =>
        /\ store = {r \in last_op.before : ~(r.created_at < last_op.cutoff)}
        /\ last_op.count = Cardinality(last_op.before) - Cardinality(store)

\* C31 witness: a cleanup deleted one row and kept another, whose created_at
\* is the cutoff itself.
C31_Witness ==
    /\ StoreReturning
    /\ last_op.op = "delete_old_events"
    /\ last_op.count = 1
    /\ \E r \in store : r.created_at = last_op.cutoff

C33_StatsByAction ==
    (StoreReturning /\ last_op.op = "get_stats" /\ last_op.group_by = "action") =>
        /\ \A e \in last_op.stats :
              /\ e.n > 0
              /\ e.n = Cardinality({r \in store : r.action = e.key})
        /\ \A r \in store : \E e \in last_op.stats : e.key = r.action
        /\ \A e1, e2 \in last_op.stats : e1.key = e2.key => e1 = e2

\* C33 witness: statistics by action over rows with two different actions.
C33_Witness ==
    /\ StoreReturning
    /\ last_op.op = "get_stats"
    /\ last_op.group_by = "action"
    /\ Cardinality(last_op.stats) = 2

\* C34: a call of a decorated function gives back exactly what the wrapped
\* function returned, whatever happened while the event was built or
\* published; when the wrapped function raises, no event is emitted.
C34_WrapperIsTransparent ==
    WrapperReturning =>
        /\ call.func = "returns" =>
              call.outcome = "returned" /\ call.returned = call.value
        /\ call.func = "raises" =>
              /\ call.outcome = "raised"
              /\ call.ev = NoEvent /\ call.invoked = <<>> /\ ~call.queued

\* C34 witness: the wrapped function returned a non-dict value, a handler
\* raised during the publication, and the wrapper returned.
C34_Witness ==
    /\ WrapperReturning
    /\ call.func = "returns"
    /\ call.value = "scalar"
    /\ call.handler_out = "raise"
    /\ call.returned = "scalar"

\* C35: process_events_batch hands every row that had the given status at the
\* start to the processor exactly once, and with a processor that never fails
\* and status "pending" no pending row is left when it returns.
C35_BatchCoversEveryRecord ==
    (StoreReturning /\ last_op.op = "process_events_batch") =>
        /\ \A r \in last_op.before :
              r.status = last_op.status_arg =>
                  Cardinality({i \in 1..Len(last_op.passed) : last_op.passed[i] = r.id}) = 1
        /\ (last_op.raises_at = 0 /\ last_op.status_arg = "pending") =>
              \A r \in store : r.status # "pending"

\* C36: an event emitted by a synchronous function decorated with
\* publish_event_async is handed to every synchronous handler registered for
\* its kind, and a task putting it on the queue is created only if an
\* asynchronous handler is registered for its kind.
C36_SyncWrapperDispatches ==
    (WrapperReturning /\ call.wrapper = "sync_wrapper" /\ call.ev # NoEvent) =>
        /\ call.invoked = call.handlers_then
        /\ call.queued => call.async_then

\* C37: when publish() returns False no handler was invoked for the event, and
\* when it returns True with an asynchronous handler registered the event is on
\* its way to the queue.
C37_ResultMatchesDispatch ==
    Returning =>
        /\ pub.result = FALSE => pub.log = <<>>
        /\ (pub.result = TRUE /\ pub.async_registered) => Count(Waiting, pub.ev) >= 1

\* C38: every run of callback() makes exactly one acknowledgment call for the
\* delivery, a basic_ack or a basic_nack, also when the basic_ack raises.
C38_OneAckDecision ==
    CallbackReturning =>
        /\ Len(cb.calls) = 1
        /\ cb.calls[1] \in {"ack", "nack_requeue", "nack_drop"}

\* a decoded notification or system message whose sub-type no handler knows
UnknownSubtype(body) ==
    /\ body.enc = "json"
    /\ body.payload.is_dict
    /\ \/ body.event_type = "notification" /\ body.payload.notification_type \notin NotificationTypes
       \/ body.event_type = "system" /\ body.payload.event \notin SystemEvents

\* C39: on a notification or system message with an unrecognised sub-type the
\* category handler returns False and callback() nacks with requeue, on every
\* delivery; no step acknowledges such a message.
C39_UnknownSubtypeRequeued ==
    /\ []((CallbackReturning /\ UnknownSubtype(cb.body)) =>
            /\ cb.handler = "false"
            /\ cb.calls = <<"nack_requeue">>
            /\ mstate[cb.msg] = "ready")
    /\ [][\A m \in 1..MaxMsgs : UnknownSubtype(msgs[m]) => mstate'[m] # "acked"]_vars

\* C39 witness: callback() has run on a system message with an unknown event
\* and the message is back in its queue.
C39_Witness ==
    /\ CallbackReturning
    /\ cb.body = SystemMessage("unknown_event")
    /\ cb.calls = <<"nack_requeue">>
    /\ Head(queues[consumer.queue]) = cb.msg

\* C40: a message for which a publisher's publish returned True is in at least
\* one declared queue when the call returns, system events included.
C40_PublishedIsRouted ==
    (PublisherReturning /\ last_send.result = "true") =>
        \E q \in QueueNames : InSeq(queues[q], next_msg - 1)

====
